---- MODULE Spec2Model ----
(***************************************************************************)
(* Database engine / session management (app/db/__init__.py), the          *)
(* GET /health/ handler (app/api/v1/endpoints/health.py) and               *)
(* HealthService.health_check (app/services/health_service.py).            *)
(*                                                                         *)
(* Every request runs on a thread t.  A thread performs one operation at   *)
(* a time; an operation is cut into steps at each read or write of the     *)
(* shared DatabaseManager fields (_engine, _session_factory) and at each   *)
(* call into the database driver, whose outcome is an input.               *)
(***************************************************************************)
EXTENDS Integers, FiniteSets, Sequences, TLC

\* ---------------------------------------------------------------- bounds
NThreads == 2
MaxEngines == 3
NegPool == 1

\* ------------------------------------------------------ program constants
DATABASE_POOL_SIZE == 5

Threads == 1..NThreads
Engines == 1..MaxEngines
\* Python's None, for a variable that holds an engine.
None == 0
\* _session_factory: <<>> is None, <<e>> is a sessionmaker bound to e.
NoFactory == <<>>
\* Values the DATABASE_POOL_SIZE setting (an unvalidated int) is drawn from.
PoolSizes == {0 - NegPool, 0, DATABASE_POOL_SIZE}

Ops == {"get_engine", "get_session_factory", "close_connections",
        "health", "service_health", "get_db", "get_async_db"}
ProbeOps == {"health", "service_health"}
DbOps == {"get_db", "get_async_db"}

VARIABLES
    poolSize,         \* settings.DATABASE_POOL_SIZE
    configOk,         \* whether create_engine accepts the settings
    engine,           \* db_manager._engine
    session_factory,  \* db_manager._session_factory
    created,          \* number of engines constructed so far (ids 1..created)
    disposeCount,     \* per engine, how often dispose() ran on it
    pc,               \* per thread, the position in its operation
    op,               \* per thread, the operation it runs
    again,            \* per thread, the call repeats the one that just returned
    eng,              \* per thread, the local engine value
    fac,              \* per thread, the local session_factory value
    stage,            \* per thread, the probe step that failed ("ok" if none)
    query,            \* per thread, the outcome of the session query
    info,             \* per thread, the dict get_connection_info returned
    resp,             \* per thread, the body the handler returned
    raised,           \* per thread, the exception that left the operation
    sess,             \* per thread, the state of the session it created
    rolledBack        \* per thread, whether session.rollback() was called

shared == <<engine, session_factory, created, disposeCount>>
settings == <<poolSize, configOk>>
locals == <<eng, fac, stage, query, info, resp, raised, sess, rolledBack>>
vars == <<poolSize, configOk, engine, session_factory, created, disposeCount,
          pc, op, again, eng, fac, stage, query, info, resp, raised, sess,
          rolledBack>>

NoInfo == [status |-> "none"]
NoResp == [status |-> "none"]

\* ------------------------------------------------------------ pure parts

\* Mutant: the test never finds a cached engine.
EngineMissingAlways(e) == TRUE

\* `if self._engine is None` in get_engine.
EngineMissing(e) == e = None

\* Mutant: the guard of close_connections is dropped.
EngineTruthyAlways(e) == TRUE

\* `if self._engine:` in close_connections (an Engine object is truthy).
EngineTruthy(e) == e # None

\* `"yes" if settings.DATABASE_POOL_SIZE else "no"`: truthiness of an int.
PoolConfigured(size) == IF size # 0 THEN "yes" ELSE "no"

\* `"passed" if connection_status == "connected" else "failed"`.
ConnectionTest(status) == IF status = "connected" THEN "passed" ELSE "failed"

\* The dict get_connection_info returns for a final connection_status.
ConnectionInfo(status, size) ==
    [status |-> status,
     pool_configured |-> PoolConfigured(size),
     connection_test |-> ConnectionTest(status)]

\* Mutant: a failing probe query leaves the status at "connected".
ProbeStatusIgnoresQuery(engineOk, connectOk, queryOk) ==
    IF engineOk /\ connectOk THEN "connected" ELSE "failed"

\* connection_status after the try block: engineOk, connectOk and queryOk say
\* whether get_engine(), engine.connect() and connection.execute() returned.
ProbeStatus(engineOk, connectOk, queryOk) ==
    IF engineOk /\ connectOk /\ queryOk THEN "connected" ELSE "failed"

Init ==
    /\ poolSize \in PoolSizes
    /\ configOk \in BOOLEAN
    /\ engine = None
    /\ session_factory = NoFactory
    /\ created = 0
    /\ disposeCount = [e \in Engines |-> 0]
    /\ pc = [t \in Threads |-> "idle"]
    /\ op = [t \in Threads |-> "none"]
    /\ again = [t \in Threads |-> FALSE]
    /\ eng = [t \in Threads |-> None]
    /\ fac = [t \in Threads |-> NoFactory]
    /\ stage = [t \in Threads |-> "none"]
    /\ query = [t \in Threads |-> "none"]
    /\ info = [t \in Threads |-> NoInfo]
    /\ resp = [t \in Threads |-> NoResp]
    /\ raised = [t \in Threads |-> "none"]
    /\ sess = [t \in Threads |-> "none"]
    /\ rolledBack = [t \in Threads |-> FALSE]

\* ------------------------------------------------------------ operations

InFlight == {t \in Threads : pc[t] \notin {"idle", "done"}}

\* First step of each operation.
Entry(o) ==
    CASE o = "close_connections" -> "cl_test"
      [] o \in {"get_session_factory"} \cup DbOps -> "sf_test"
      [] OTHER -> "ge_test"

\* A request (or a direct caller) starts operation o on thread t.  Each
\* operation constructs at most one engine: the guard keeps ids in Engines.
Call(t) ==
    /\ pc[t] \in {"idle", "done"}
    /\ created + Cardinality(InFlight) < MaxEngines
    /\ \E o \in Ops :
        /\ op' = [op EXCEPT ![t] = o]
        /\ again' = [again EXCEPT ![t] = /\ o \in {"get_engine",
                                                    "close_connections"}
                                         /\ pc[t] = "done"
                                         /\ op[t] = o
                                         /\ raised[t] = "none"]
        /\ pc' = [pc EXCEPT ![t] = Entry(o)]
    /\ eng' = [eng EXCEPT ![t] = None]
    /\ fac' = [fac EXCEPT ![t] = NoFactory]
    /\ stage' = [stage EXCEPT ![t] = "none"]
    /\ query' = [query EXCEPT ![t] = "none"]
    /\ info' = [info EXCEPT ![t] = NoInfo]
    /\ resp' = [resp EXCEPT ![t] = NoResp]
    /\ raised' = [raised EXCEPT ![t] = "none"]
    /\ sess' = [sess EXCEPT ![t] = "none"]
    /\ rolledBack' = [rolledBack EXCEPT ![t] = FALSE]
    /\ UNCHANGED <<shared, settings>>

\* Where the caller of get_connection_info continues.
AfterProbe(o) == IF o = "health" THEN "hc_respond" ELSE "hs_check"

\* get_engine, line 68: the test of self._engine.
GetEngineTest(t) ==
    /\ pc[t] = "ge_test"
    /\ pc' = [pc EXCEPT ![t] = IF EngineMissing(engine) THEN "ge_create"
                                                        ELSE "ge_ret"]
    /\ UNCHANGED <<shared, settings, op, again, locals>>

\* create_database_engine: a fresh engine, or the driver's exception, logged
\* and re-raised.  get_connection_info catches it; elsewhere it leaves the
\* operation.
CreateDatabaseEngine(t) ==
    /\ pc[t] = "ge_create"
    /\ IF configOk
       THEN /\ created' = created + 1
            /\ eng' = [eng EXCEPT ![t] = created + 1]
            /\ pc' = [pc EXCEPT ![t] = "ge_assign"]
            /\ UNCHANGED <<stage, info, raised>>
       ELSE /\ UNCHANGED <<created, eng>>
            /\ IF op[t] \in ProbeOps
               THEN /\ stage' = [stage EXCEPT ![t] = "engine"]
                    /\ info' = [info EXCEPT ![t] = ConnectionInfo(
                                   ProbeStatus(FALSE, FALSE, FALSE), poolSize)]
                    /\ pc' = [pc EXCEPT ![t] = AfterProbe(op[t])]
                    /\ UNCHANGED raised
               ELSE /\ raised' = [raised EXCEPT ![t] = "EngineCreationError"]
                    /\ pc' = [pc EXCEPT ![t] = "done"]
                    /\ UNCHANGED <<stage, info>>
    /\ UNCHANGED <<engine, session_factory, disposeCount, settings, op, again,
                   fac, query, resp, sess, rolledBack>>

\* get_engine, line 69: the assignment to self._engine.
GetEngineAssign(t) ==
    /\ pc[t] = "ge_assign"
    /\ engine' = eng[t]
    /\ pc' = [pc EXCEPT ![t] = "ge_ret"]
    /\ UNCHANGED <<session_factory, created, disposeCount, settings, op, again,
                   locals>>

\* Where the caller of get_engine continues.
AfterGetEngine(o) ==
    CASE o = "get_engine" -> "done"
      [] o \in ProbeOps -> "ci_connect"
      [] OTHER -> "sf_assign"

\* get_engine, line 70: `return self._engine` reads the field again.
GetEngineReturn(t) ==
    /\ pc[t] = "ge_ret"
    /\ eng' = [eng EXCEPT ![t] = engine]
    /\ pc' = [pc EXCEPT ![t] = AfterGetEngine(op[t])]
    /\ UNCHANGED <<shared, settings, op, again, fac, stage, query, info, resp,
                   raised, sess, rolledBack>>

\* get_session_factory, line 74: the test of self._session_factory.
GetSessionFactoryTest(t) ==
    /\ pc[t] = "sf_test"
    /\ pc' = [pc EXCEPT ![t] = IF session_factory = NoFactory THEN "ge_test"
                                                              ELSE "sf_ret"]
    /\ UNCHANGED <<shared, settings, op, again, locals>>

\* get_session_factory, lines 76-80: sessionmaker(bind=engine) is stored.
GetSessionFactoryAssign(t) ==
    /\ pc[t] = "sf_assign"
    /\ session_factory' = <<eng[t]>>
    /\ pc' = [pc EXCEPT ![t] = "sf_ret"]
    /\ UNCHANGED <<engine, created, disposeCount, settings, op, again, locals>>

\* get_session_factory, line 81: `return self._session_factory`.
GetSessionFactoryReturn(t) ==
    /\ pc[t] = "sf_ret"
    /\ fac' = [fac EXCEPT ![t] = session_factory]
    /\ pc' = [pc EXCEPT ![t] = IF op[t] \in DbOps THEN "db_session" ELSE "done"]
    /\ UNCHANGED <<shared, settings, op, again, eng, stage, query, info, resp,
                   raised, sess, rolledBack>>

\* close_connections, line 85: `if self._engine:`.
CloseTest(t) ==
    /\ pc[t] = "cl_test"
    /\ pc' = [pc EXCEPT ![t] = IF EngineTruthy(engine) THEN "cl_dispose"
                                                       ELSE "cl_clear"]
    /\ UNCHANGED <<shared, settings, op, again, locals>>

\* close_connections, line 86: `self._engine.dispose()` reads the field again;
\* on None the attribute lookup raises and the call ends there.
CloseDispose(t) ==
    /\ pc[t] = "cl_dispose"
    /\ IF engine = None
       THEN /\ raised' = [raised EXCEPT ![t] = "AttributeError"]
            /\ pc' = [pc EXCEPT ![t] = "done"]
            /\ UNCHANGED disposeCount
       ELSE /\ disposeCount' = [disposeCount EXCEPT ![engine] = @ + 1]
            /\ pc' = [pc EXCEPT ![t] = "cl_setnone"]
            /\ UNCHANGED raised
    /\ UNCHANGED <<engine, session_factory, created, settings, op, again, eng,
                   fac, stage, query, info, resp, sess, rolledBack>>

\* Mutant: the disposed engine stays cached.
CloseSetNoneKeeps(t) ==
    /\ pc[t] = "cl_setnone"
    /\ pc' = [pc EXCEPT ![t] = "cl_clear"]
    /\ UNCHANGED <<shared, settings, op, again, locals>>

\* close_connections, line 87: `self._engine = None`.
CloseSetNone(t) ==
    /\ pc[t] = "cl_setnone"
    /\ engine' = None
    /\ pc' = [pc EXCEPT ![t] = "cl_clear"]
    /\ UNCHANGED <<session_factory, created, disposeCount, settings, op, again,
                   locals>>

\* close_connections, line 89: `self._session_factory = None`.
CloseClearFactory(t) ==
    /\ pc[t] = "cl_clear"
    /\ session_factory' = NoFactory
    /\ pc' = [pc EXCEPT ![t] = "done"]
    /\ UNCHANGED <<engine, created, disposeCount, settings, op, again, locals>>

\* get_connection_info, line 169: engine.connect().  A None engine has no
\* connect attribute; a real one connects or the driver raises.  Either
\* exception is caught at line 173.
ProbeConnect(t) ==
    /\ pc[t] = "ci_connect"
    /\ \E ok \in (IF eng[t] = None THEN {FALSE} ELSE BOOLEAN) :
        IF ok
        THEN /\ pc' = [pc EXCEPT ![t] = "ci_execute"]
             /\ UNCHANGED <<stage, info>>
        ELSE /\ stage' = [stage EXCEPT ![t] = "connect"]
             /\ info' = [info EXCEPT ![t] = ConnectionInfo(
                            ProbeStatus(TRUE, FALSE, FALSE), poolSize)]
             /\ pc' = [pc EXCEPT ![t] = AfterProbe(op[t])]
    /\ UNCHANGED <<shared, settings, op, again, eng, fac, query, resp, raised,
                   sess, rolledBack>>

\* get_connection_info, lines 170-183: the probe query, then the dict.
ProbeExecute(t) ==
    /\ pc[t] = "ci_execute"
    /\ \E ok \in BOOLEAN :
        /\ stage' = [stage EXCEPT ![t] = IF ok THEN "ok" ELSE "query"]
        /\ info' = [info EXCEPT ![t] = ConnectionInfo(
                       ProbeStatus(TRUE, TRUE, ok), poolSize)]
    /\ pc' = [pc EXCEPT ![t] = AfterProbe(op[t])]
    /\ UNCHANGED <<shared, settings, op, again, eng, fac, query, resp, raised,
                   sess, rolledBack>>

\* _get_service_status: the static part the verdict reads.
GetServiceStatus == [status |-> "ok"]

\* Mutant: the probe's dict is handed on as it is.
GetDatabaseStatusVerbatim(ci) == ci

\* _get_database_status, lines 37-56, for the dict get_connection_info gave.
GetDatabaseStatus(ci) ==
    [status |-> IF ci.status = "connected" THEN "connected" ELSE "error",
     pool_configured |-> ci.pool_configured,
     connection_test |-> ci.connection_test]

\* Mutant: `or` in place of `and`.
OverallHealthyEither(service_status, database_status) ==
    service_status.status = "ok" \/ database_status.status = "connected"

\* health_check, lines 84-87.
OverallHealthy(service_status, database_status) ==
    service_status.status = "ok" /\ database_status.status = "connected"

\* health_check, lines 104-114: the body returned.
HealthBody(service_status, database_status) ==
    [status |-> IF OverallHealthy(service_status, database_status)
                THEN "healthy" ELSE "unhealthy",
     message |-> IF OverallHealthy(service_status, database_status)
                 THEN "All systems operational"
                 ELSE "Some systems have issues",
     service |-> service_status,
     database |-> database_status]

\* GET /health/: the handler after get_connection_info returned.
HealthCheckRespond(t) ==
    /\ pc[t] = "hc_respond"
    /\ resp' = [resp EXCEPT ![t] =
                   HealthBody(GetServiceStatus, GetDatabaseStatus(info[t]))]
    /\ pc' = [pc EXCEPT ![t] = "done"]
    /\ UNCHANGED <<shared, settings, op, again, eng, fac, stage, query, info,
                   raised, sess, rolledBack>>

\* Mutant: a probe that returned anything counts as connected.
IsConnectedLenient(ci) == ci.status # "none"

\* HealthService.health_check, line 57.
IsConnected(ci) == ci.status = "connected"

\* HealthService.health_check, lines 57-61: the hard failure.
HealthServiceCheck(t) ==
    /\ pc[t] = "hs_check"
    /\ IF IsConnected(info[t])
       THEN /\ pc' = [pc EXCEPT ![t] = "hs_query"]
            /\ UNCHANGED raised
       ELSE /\ raised' = [raised EXCEPT ![t] = "DatabaseConnectionError"]
            /\ pc' = [pc EXCEPT ![t] = "done"]
    /\ UNCHANGED <<shared, settings, op, again, eng, fac, stage, query, info, resp,
                   sess, rolledBack>>

\* Outcomes of self.db.execute(...).fetchone(): a row, no row, an exception.
QueryOutcomes == {"row", "norow", "throws"}

\* HealthService.health_check, lines 63-74: query_successful.
QuerySuccessful(outcome) == outcome = "row"

\* HealthService.health_check, lines 64 and 73: query_error_msg.
QueryErrorMsg(outcome) == IF outcome = "throws" THEN "msg" ELSE "None"

\* HealthService.health_check, lines 76-93: the body returned.  The key
\* query_error is present only when the query was not successful.
ServiceBody(ci, outcome) ==
    [status |-> IF IsConnected(ci) /\ QuerySuccessful(outcome)
                THEN "healthy" ELSE "unhealthy",
     checks |-> [database_connection |-> IsConnected(ci),
                 database_query |-> QuerySuccessful(outcome),
                 query_error |-> IF QuerySuccessful(outcome) THEN "absent"
                                 ELSE QueryErrorMsg(outcome)],
     connection_info |-> ci]

\* HealthService.health_check, lines 66-105: the session query and the body.
HealthServiceQuery(t) ==
    /\ pc[t] = "hs_query"
    /\ \E outcome \in QueryOutcomes :
        /\ query' = [query EXCEPT ![t] = outcome]
        /\ resp' = [resp EXCEPT ![t] = ServiceBody(info[t], outcome)]
    /\ pc' = [pc EXCEPT ![t] = "done"]
    /\ UNCHANGED <<shared, settings, op, again, eng, fac, stage, info, raised,
                   sess, rolledBack>>

\* get_db / get_async_db, lines 115-116 (142-143): session_factory() is
\* called on what get_session_factory returned; None is not callable and the
\* exception leaves before any session exists.
DbSession(t) ==
    /\ pc[t] = "db_session"
    /\ IF fac[t] = NoFactory
       THEN /\ raised' = [raised EXCEPT ![t] = "TypeError"]
            /\ pc' = [pc EXCEPT ![t] = "done"]
            /\ UNCHANGED sess
       ELSE /\ sess' = [sess EXCEPT ![t] = "open"]
            /\ pc' = [pc EXCEPT ![t] = "db_body"]
            /\ UNCHANGED raised
    /\ UNCHANGED <<shared, settings, op, again, eng, fac, stage, query, info, resp,
                   rolledBack>>

\* What the code around the yield may raise into the generator.
BodyOutcomes == {"ok", "SQLAlchemyError", "Exception"}

\* Mutant: no finally clause, an exception leaves the generator at once.
AfterBodyNoFinally(r) == IF r = "ok" THEN "db_close" ELSE "done"

\* The try statement of get_db, lines 117-128: an exception goes to its
\* except clause, a normal return to the finally clause.
AfterBody(r) == IF r = "ok" THEN "db_close" ELSE "db_rollback"

\* get_db / get_async_db, line 118 (145): the request runs with the session.
DbBody(t) ==
    /\ pc[t] = "db_body"
    /\ \E r \in BodyOutcomes :
        /\ raised' = [raised EXCEPT ![t] = IF r = "ok" THEN "none" ELSE r]
        /\ pc' = [pc EXCEPT ![t] = AfterBody(r)]
    /\ UNCHANGED <<shared, settings, op, again, eng, fac, stage, query, info, resp,
                   sess, rolledBack>>

\* get_db / get_async_db, lines 119-126 (146-153): rollback, then re-raise
\* through the finally clause.
DbRollback(t) ==
    /\ pc[t] = "db_rollback"
    /\ rolledBack' = [rolledBack EXCEPT ![t] = TRUE]
    /\ pc' = [pc EXCEPT ![t] = "db_close"]
    /\ UNCHANGED <<shared, settings, op, again, eng, fac, stage, query, info, resp,
                   raised, sess>>

\* get_db / get_async_db, lines 127-128 (154-155): finally session.close().
DbClose(t) ==
    /\ pc[t] = "db_close"
    /\ sess' = [sess EXCEPT ![t] = "closed"]
    /\ pc' = [pc EXCEPT ![t] = "done"]
    /\ UNCHANGED <<shared, settings, op, again, eng, fac, stage, query, info, resp,
                   raised, rolledBack>>

Step(t) ==
    \/ Call(t)
    \/ GetEngineTest(t)
    \/ CreateDatabaseEngine(t)
    \/ GetEngineAssign(t)
    \/ GetEngineReturn(t)
    \/ GetSessionFactoryTest(t)
    \/ GetSessionFactoryAssign(t)
    \/ GetSessionFactoryReturn(t)
    \/ CloseTest(t)
    \/ CloseDispose(t)
    \/ CloseSetNone(t)
    \/ CloseClearFactory(t)
    \/ ProbeConnect(t)
    \/ ProbeExecute(t)
    \/ HealthCheckRespond(t)
    \/ HealthServiceCheck(t)
    \/ HealthServiceQuery(t)
    \/ DbSession(t)
    \/ DbBody(t)
    \/ DbRollback(t)
    \/ DbClose(t)

Next == \E t \in Threads : Step(t)

Spec == Init /\ [][Next]_vars

\* Calls made one after another: a single thread issues every call.
NextSeq == Step(1)

SpecSeq == Init /\ [][NextSeq]_vars

\* The framework resumes the generator when the request body has returned
\* or raised, and the generator then runs to its end.
Fairness == \A t \in Threads : WF_vars(DbBody(t) \/ DbRollback(t) \/ DbClose(t))

FairSpecSeq == SpecSeq /\ Fairness

\* ---------------------------------------------------------------- claims

Done(t, o) == pc[t] = "done" /\ op[t] = o

\* Engines on which dispose() has run.
Disposed == {e \in Engines : disposeCount[e] > 0}

\* Engines constructed and not disposed.
Live == {e \in 1..created : disposeCount[e] = 0}

\* C1: while no close_connections has torn an engine down, concurrent
\* first-time get_engine() calls construct exactly one engine: a second
\* engine is never constructed.
C1_ExactlyOneEngine == (Disposed = {}) => created <= 1

\* C2 as stated: pool size 5 and an unreachable server make GET /health/
\* return normally with status "unhealthy", database.status "failed" and
\* database.pool_configured "yes".
C2_DownHostReportsFailed ==
    \A t \in Threads :
        (Done(t, "health") /\ poolSize = DATABASE_POOL_SIZE
                           /\ stage[t] = "connect")
        => /\ raised[t] = "none"
           /\ resp[t].status = "unhealthy"
           /\ resp[t].database.status = "failed"
           /\ resp[t].database.pool_configured = "yes"

\* C2 amended: pool size 5 and an unreachable server make GET /health/
\* return normally with status "unhealthy", database.status "error",
\* database.connection_test "failed" and database.pool_configured "yes".
C2_DownHostReportsError ==
    \A t \in Threads :
        (Done(t, "health") /\ poolSize = DATABASE_POOL_SIZE
                           /\ stage[t] = "connect")
        => /\ raised[t] = "none"
           /\ resp[t].status = "unhealthy"
           /\ resp[t].database.status = "error"
           /\ resp[t].database.connection_test = "failed"
           /\ resp[t].database.pool_configured = "yes"

C2_Witness ==
    \E t \in Threads :
        /\ Done(t, "health")
        /\ poolSize = DATABASE_POOL_SIZE
        /\ stage[t] = "connect"
        /\ resp[t].status = "unhealthy"

\* Positions a thread is at once its get_connection_info call has ended.
ProbeEnded(t) ==
    op[t] \in ProbeOps /\ pc[t] \in {"hc_respond", "hs_check", "hs_query", "done"}

\* C3: get_connection_info always ends by returning its dict, never by an
\* exception; the dict says "connected"/"passed" exactly when get_engine,
\* connect and the probe query all succeeded, and "failed"/"failed" when
\* any of the three failed.
C3_ProbeClassifies ==
    \A t \in Threads :
        ProbeEnded(t)
        => /\ info[t] # NoInfo
           /\ stage[t] \in {"ok", "engine", "connect", "query"}
           /\ (stage[t] = "ok")
                <=> (info[t].status = "connected"
                       /\ info[t].connection_test = "passed")
           /\ (stage[t] # "ok")
                => (info[t].status = "failed"
                      /\ info[t].connection_test = "failed")
           /\ Done(t, "health") => raised[t] = "none"

C3_Witness ==
    \E t \in Threads :
        /\ ProbeEnded(t)
        /\ stage[t] = "query"
        /\ info[t].status = "failed"

\* C4: the body of GET /health/ says "healthy" exactly when the service
\* status is "ok" and the database status is "connected", and "unhealthy"
\* otherwise.
C4_HealthyIffBoth ==
    \A t \in Threads :
        Done(t, "health")
        => /\ resp[t].status \in {"healthy", "unhealthy"}
           /\ (resp[t].status = "healthy")
                <=> (resp[t].service.status = "ok"
                       /\ resp[t].database.status = "connected")

C4_Witness ==
    \E t \in Threads :
        /\ Done(t, "health")
        /\ resp[t].service.status = "ok"
        /\ resp[t].database.status # "connected"
        /\ resp[t].status = "unhealthy"

C5_State ==
    /\ Cardinality(Live) <= 1
    /\ \A t \in Threads :
        (Done(t, "get_engine") /\ raised[t] = "none")
        => (eng[t] # None /\ eng[t] = engine /\ Live = {eng[t]})

C5_Step ==
    /\ created' # created => engine = None
    /\ (engine # None /\ engine' # None) => engine' = engine

\* C5: with calls made one after another, get_engine() returns the cached
\* engine, which is the only live one; the cached engine is never replaced
\* by another without passing through None; an engine is constructed only
\* when none is cached.
C5_OneLiveEngine == []C5_State /\ [][C5_Step]_vars

C5_Witness ==
    \E t \in Threads :
        /\ Done(t, "get_engine")
        /\ again[t]
        /\ eng[t] # None
        /\ eng[t] = engine

C6_State ==
    \A t \in Threads :
        /\ (Done(t, "close_connections") /\ raised[t] = "none")
           => /\ engine = None
              /\ session_factory = NoFactory
              /\ \A e \in 1..created : e \in Disposed
        /\ (Done(t, "get_engine") /\ raised[t] = "none")
           => eng[t] \notin Disposed

C6_Step ==
    \A t \in Threads :
        /\ (pc[t] = "ge_test" /\ pc'[t] # pc[t] /\ engine = None)
           => pc'[t] = "ge_create"
        /\ (pc[t] = "ge_create" /\ pc'[t] = "ge_assign")
           => (created' = created + 1 /\ eng'[t] = created'
                 /\ eng'[t] \notin Disposed)

\* C6: with calls made one after another, when close_connections() returns
\* every engine constructed so far has been disposed and both caches are
\* empty; a get_engine() call that finds no cached engine constructs one,
\* and the engine it returns is none of the disposed ones.
C6_FreshAfterClose == []C6_State /\ [][C6_Step]_vars

C6_Witness ==
    \E t \in Threads :
        /\ Done(t, "get_engine")
        /\ raised[t] = "none"
        /\ Disposed # {}
        /\ eng[t] \notin Disposed
        /\ eng[t] = engine

\* C7: HealthService.health_check raises DatabaseConnectionError exactly
\* when the probe did not report "connected", and then the session query
\* never ran; when the probe reported "connected" and the session query
\* threw, nothing is raised and the body has status "unhealthy",
\* database_connection true, database_query false and the error message
\* under query_error.
C7_HardVersusSoftFailure ==
    \A t \in Threads :
        Done(t, "service_health")
        => /\ (raised[t] = "DatabaseConnectionError")
                <=> (info[t].status # "connected")
           /\ raised[t] \in {"none", "DatabaseConnectionError"}
           /\ raised[t] # "none" => (query[t] = "none" /\ resp[t] = NoResp)
           /\ raised[t] = "none" => query[t] \in QueryOutcomes
           /\ query[t] = "throws"
                => /\ resp[t].status = "unhealthy"
                   /\ resp[t].checks.database_connection = TRUE
                   /\ resp[t].checks.database_query = FALSE
                   /\ resp[t].checks.query_error = "msg"

C7_Witness ==
    \E t \in Threads :
        /\ Done(t, "service_health")
        /\ query[t] = "throws"
        /\ raised[t] = "none"
        /\ resp[t].status = "unhealthy"

C8_State ==
    \A t \in Threads :
        /\ sess[t] = "open"
           => (op[t] \in DbOps /\ pc[t] \in {"db_body", "db_rollback", "db_close"})
        /\ (op[t] \in DbOps /\ pc[t] = "db_close" /\ raised[t] # "none")
           => rolledBack[t]
        /\ (op[t] \in DbOps /\ pc[t] = "done")
           => /\ sess[t] # "open"
              /\ raised[t] \in {"SQLAlchemyError", "Exception"}
                   => (rolledBack[t] /\ sess[t] = "closed")
              /\ raised[t] = "none" => (sess[t] = "closed" /\ ~rolledBack[t])

\* C8: a session created by get_db / get_async_db is open only while its
\* request runs and is eventually closed; when the request ends the
\* session is closed, and if the request body raised, rollback ran before
\* the close and the same exception leaves the generator.
C8_SessionClosedOnExit ==
    /\ []C8_State
    /\ \A t \in Threads : (sess[t] = "open") ~> (sess[t] = "closed")

C8_Witness ==
    \E t \in Threads :
        /\ Done(t, "get_async_db")
        /\ raised[t] = "Exception"
        /\ rolledBack[t]
        /\ sess[t] = "closed"

C9_State ==
    /\ \A e \in Engines : disposeCount[e] <= 1
    /\ \A t \in Threads :
        Done(t, "close_connections")
        => (raised[t] = "none" /\ engine = None /\ session_factory = NoFactory)

C9_Step ==
    \A t \in Threads :
        (/\ op[t] = "close_connections"
         /\ pc[t] \in {"cl_test", "cl_dispose", "cl_setnone", "cl_clear"}
         /\ pc'[t] # pc[t]
         /\ engine = None
         /\ session_factory = NoFactory)
        => /\ UNCHANGED <<shared, raised>>
           /\ pc'[t] \in {"cl_clear", "done"}

\* C9: with calls made one after another, close_connections() on empty
\* caches changes nothing, disposes nothing and returns normally; after
\* any close_connections() both caches are empty, so a second call in a
\* row is such a no-op, and no engine is ever disposed twice.
C9_CloseIdempotent == []C9_State /\ [][C9_Step]_vars

C9_Witness ==
    \E t \in Threads :
        /\ Done(t, "close_connections")
        /\ again[t]
        /\ \E e \in Engines : disposeCount[e] = 1

\* C10: get_connection_info reports pool_configured "yes" exactly when the
\* configured pool size is greater than 0, and "no" otherwise, whatever
\* the probe found.
C10_PoolConfiguredIffPositive ==
    \A t \in Threads :
        ProbeEnded(t)
        => /\ info[t].pool_configured \in {"yes", "no"}
           /\ (info[t].pool_configured = "yes") <=> (poolSize > 0)

\* A close_connections() call is part-way through its teardown.
Closing == \E t \in Threads : pc[t] \in {"cl_dispose", "cl_setnone", "cl_clear"}

\* C11: under any interleaving of calls, in every state outside a teardown
\* in progress, a cached session factory is bound to the currently cached
\* engine: it is never cached while the engine cache is empty and never
\* bound to an engine that was disposed or replaced.
C11_FactoryBoundToCachedEngine ==
    (~Closing /\ session_factory # NoFactory)
    => /\ engine # None
       /\ session_factory = <<engine>>
       /\ engine \notin Disposed
====
